---- MODULE Spec2Model ----
(***************************************************************************)
(* Finite dimensional graded commutative algebras                          *)
(* (sage/algebras/finite_gca.py, class FiniteGCAlgebra).                   *)
(*                                                                         *)
(* The state is one algebra object (the attributes set by __init__), the   *)
(* position of its user (pc: "new" before the construction, "failed" when  *)
(* the construction raised, "ready" between two calls, "returned" while    *)
(* the user holds the result of a call) and the record of that call.       *)
(*                                                                         *)
(* Representation.                                                         *)
(*   - a Python str is a sequence of one-character strings;                *)
(*   - a tuple or list is a sequence;                                      *)
(*   - an index (element of WeightedIntegerVectors(degrees)) is a sequence *)
(*     of naturals, one entry per degree;                                  *)
(*   - an element of the algebra is a function from indices to nonzero     *)
(*     coefficients (the dictionary of a CombinatorialFreeModule element); *)
(*     zero is the empty function.                                         *)
(***************************************************************************)
EXTENDS Integers, Sequences, FiniteSets, TLC

\* Largest number of names / of degrees passed to the constructor.
MaxGens == 3
\* Largest degree of a generator passed to the constructor.
MaxDegree == 3
\* Largest integer passed as max_degree.
MaxMaxDeg == 4

VARIABLES alg, pc, op

vars == <<alg, pc, op>>

(***************************************************************************)
(* Python and Sage primitives used by the class.                           *)
(***************************************************************************)
Min(a, b) == IF a <= b THEN a ELSE b

is_odd(d) == d % 2 = 1

is_even(d) == d % 2 = 0

\* max(degrees); the caller handles the empty sequence (ValueError).
RECURSIVE max(_)
max(s) ==
  IF Len(s) = 1 THEN s[1]
  ELSE LET m == max(Tail(s)) IN IF s[1] >= m THEN s[1] ELSE m

RECURSIVE gcd2(_, _)
gcd2(a, b) == IF b = 0 THEN a ELSE gcd2(b, a % b)

\* gcd(degrees) of sage.arith.misc: gcd of all the entries, 0 for none.
RECURSIVE gcd(_)
gcd(s) == IF s = <<>> THEN 0 ELSE gcd2(s[1], gcd(Tail(s)))

\* range(start, stop, step) for a positive step, as the set of its values.
range(start, stop, step) ==
  {k \in start..(stop - 1) : (k - start) % step = 0}

\* (-1)**c
MinusOnePow(c) == IF c % 2 = 0 THEN 1 ELSE -1

\* str.split(','): the pieces between the commas.
RECURSIVE split(_, _)
split(chars, cur) ==
  IF chars = <<>> THEN <<cur>>
  ELSE IF Head(chars) = "," THEN <<cur>> \o split(Tail(chars), <<>>)
  ELSE split(Tail(chars), Append(cur, Head(chars)))

\* str(i) for a natural i.
DigitChars == <<"0", "1", "2", "3", "4", "5", "6", "7", "8", "9">>

RECURSIVE str(_)
str(i) ==
  IF i < 10 THEN <<DigitChars[i + 1]>>
  ELSE Append(str(i \div 10), DigitChars[(i % 10) + 1])

\* 'x{}'.format(i)
DefaultName(i) == <<"x">> \o str(i)

(***************************************************************************)
(* WeightedIntegerVectors(degrees): grading and the slice of one weight.   *)
(***************************************************************************)
\* grading(w) = sum of w_i * degree_i over the zipped entries.
RECURSIVE grading(_, _)
grading(degrees, w) ==
  IF w = <<>> \/ degrees = <<>> THEN 0
  ELSE w[1] * degrees[1] + grading(Tail(degrees), Tail(w))

\* subset(k): every vector of naturals, one entry per degree, of weight k.
RECURSIVE subset(_, _)
subset(degrees, k) ==
  IF degrees = <<>> THEN (IF k = 0 THEN {<<>>} ELSE {})
  ELSE UNION {{<<e>> \o v : v \in subset(Tail(degrees), k - e * degrees[1])} :
              e \in 0..(k \div degrees[1])}

(***************************************************************************)
(* Elements of the free module.                                            *)
(***************************************************************************)
\* self.zero()
zero == <<>>

\* self.monomial(w)
monomial(w) == w :> 1

\* c * x for a scalar c
scalar_mul(c, x) ==
  IF c = 0 THEN zero ELSE [w \in DOMAIN x |-> c * x[w]]

(***************************************************************************)
(* Construction.                                                           *)
(***************************************************************************)
None == [kind |-> "none", val |-> <<>>]

Raised(e) == [kind |-> "error", error |-> e]

\* __classcall_private__: normalise names and degrees, or raise.
classcall_private(names, degrees, max_degree) ==
  IF max_degree.kind = "none" THEN Raised("TypeError")
  ELSE IF names.kind = "none" /\ degrees.kind = "none" THEN Raised("ValueError")
  ELSE
    LET n == IF names.kind = "none" THEN Len(degrees.val)
             ELSE IF names.kind = "str" THEN Len(split(names.val, <<>>))
             ELSE Len(names.val)
        nm == IF names.kind = "none" THEN [i \in 1..n |-> DefaultName(i - 1)]
              ELSE IF names.kind = "str" THEN split(names.val, <<>>)
              ELSE names.val
        dg == IF degrees.kind = "none" THEN [i \in 1..n |-> 1]
              ELSE degrees.val
    IN [kind |-> "args", names |-> nm, degrees |-> dg, max_degree |-> max_degree]

\* __init__: check max_degree and set the attributes, or raise.
init(names, degrees, max_degree) ==
  IF max_degree.kind # "int" THEN Raised("TypeError")
  ELSE IF degrees = <<>> THEN Raised("ValueError")
  ELSE IF max_degree.val < max(degrees) THEN Raised("ValueError")
  ELSE [kind |-> "algebra",
        names |-> names,
        ngens |-> Len(names),
        degrees |-> degrees,
        max_deg |-> max_degree.val]

\* FiniteGCAlgebra(base, names, degrees, max_degree)
construct(names, degrees, max_degree) ==
  LET a == classcall_private(names, degrees, max_degree)
  IN IF a.kind = "error" THEN a
     ELSE init(a.names, a.degrees, a.max_degree)

\* _valid_index comparing the exponents with 2 instead of 1.
valid_index_AllowsSquares(A, w) ==
  ~ \E k \in 1..Min(Len(w), Len(A.degrees)) :
       is_odd(A.degrees[k]) /\ w[k] > 2

\* _valid_index(w): no multiple powers in odd degrees.
valid_index(A, w) ==
  ~ \E k \in 1..Min(Len(w), Len(A.degrees)) :
       is_odd(A.degrees[k]) /\ w[k] > 1

\* The index set given to CombinatorialFreeModule.__init__: the valid
\* indices of the disjoint union of the slices of weight
\* k in range(0, max_degree, gcd(degrees)).
indices(A) ==
  LET step == gcd(A.degrees)
      universe == UNION {subset(A.degrees, k) : k \in range(0, A.max_deg, step)}
  IN {w \in universe : valid_index(A, w)}

(***************************************************************************)
(* Multiplication on the basis.                                            *)
(***************************************************************************)
\* deg_tot = grading(w1) + grading(w2)
deg_tot(A, w1, w2) == grading(A.degrees, w1) + grading(A.degrees, w2)

\* The cut off by one degree too late.
truncated_OneTooLate(A, w1, w2) == deg_tot(A, w1, w2) > A.max_deg + 1

\* deg_tot > self._max_deg: the product is cut off.
truncated(A, w1, w2) == deg_tot(A, w1, w2) > A.max_deg

\* [sum(w) for w in zip(w1, w2)]
w_tot(w1, w2) == [k \in 1..Min(Len(w1), Len(w2)) |-> w1[k] + w2[k]]

\* The inner loop without its test j == 0.
RECURSIVE inner_loop_NoZeroTest(_, _, _, _)
inner_loop_NoZeroTest(A, w2, p, q) ==
  IF q >= Min(A.ngens, Min(Len(w2), Len(A.degrees))) THEN 0
  ELSE IF q = p THEN 0
  ELSE (IF is_even(A.degrees[q + 1]) THEN 0 ELSE 1)
       + inner_loop_NoZeroTest(A, w2, p, q + 1)

\* The inner loop, from position q on:
\*   for q, j, b in zip(range(n), w2, self._degrees)
RECURSIVE inner_loop(_, _, _, _)
inner_loop(A, w2, p, q) ==
  IF q >= Min(A.ngens, Min(Len(w2), Len(A.degrees))) THEN 0
  ELSE IF q = p THEN 0
  ELSE (IF w2[q + 1] = 0 \/ is_even(A.degrees[q + 1]) THEN 0 ELSE 1)
       + inner_loop(A, w2, p, q + 1)

\* The outer loop without its test i == 0.
RECURSIVE outer_loop_NoZeroTest(_, _, _, _)
outer_loop_NoZeroTest(A, w1, w2, k) ==
  IF k >= Min(A.ngens, Min(Len(w1), Len(A.degrees))) THEN 0
  ELSE LET p == A.ngens - 1 - k
           d == A.degrees[Len(A.degrees) - k]
       IN (IF is_even(d) THEN 0 ELSE inner_loop(A, w2, p, 0))
          + outer_loop_NoZeroTest(A, w1, w2, k + 1)

\* The outer loop, from its k-th iteration on:
\*   for p, i, d in zip(reversed(range(n)), reversed(w1), reversed(self._degrees))
RECURSIVE outer_loop(_, _, _, _)
outer_loop(A, w1, w2, k) ==
  IF k >= Min(A.ngens, Min(Len(w1), Len(A.degrees))) THEN 0
  ELSE LET p == A.ngens - 1 - k
           i == w1[Len(w1) - k]
           d == A.degrees[Len(A.degrees) - k]
       IN (IF is_even(d) \/ i = 0 THEN 0 ELSE inner_loop(A, w2, p, 0))
          + outer_loop(A, w1, w2, k + 1)

\* c, the exponent of the sign, after the loops.
sign_count(A, w1, w2) == outer_loop(A, w1, w2, 0)

\* product_on_basis(w1, w2)
product_on_basis(A, w1, w2) ==
  IF truncated(A, w1, w2) THEN zero
  ELSE IF ~ valid_index(A, w_tot(w1, w2)) THEN zero
  ELSE scalar_mul(MinusOnePow(sign_count(A, w1, w2)), monomial(w_tot(w1, w2)))

\* degree_on_basis(i)
degree_on_basis(A, i) == grading(A.degrees, i)

(***************************************************************************)
(* Generators and the unit.                                                *)
(***************************************************************************)
\* one_basis(): the index of the one element.
one_basis(A) == [k \in 1..Len(A.degrees) |-> 0]

\* The index of the k-th generator built by gens(), k counted from 0.
unit_index(A, k) == [j \in 1..Len(A.degrees) |-> IF j = k + 1 THEN 1 ELSE 0]

\* gens(): the list of the generators.
gens(A) == [k \in 1..Len(A.degrees) |-> monomial(unit_index(A, k - 1))]

\* list[i] of Python: a negative i counts from the end.
list_getitem(l, i) ==
  IF 0 <= i /\ i < Len(l) THEN [kind |-> "value", val |-> l[i + 1]]
  ELSE IF - Len(l) <= i /\ i < 0 THEN [kind |-> "value", val |-> l[Len(l) + i + 1]]
  ELSE [kind |-> "error", error |-> "IndexError"]

\* gen(i) refusing every i outside [0, n).
gen_BoundsChecked(A, i) ==
  IF 0 <= i /\ i < Len(gens(A)) THEN [kind |-> "value", val |-> gens(A)[i + 1]]
  ELSE [kind |-> "error", error |-> "IndexError"]

\* gen(i)
gen(A, i) == list_getitem(gens(A), i)

\* ngens()
ngens(A) == A.ngens

\* maximal_degree()
maximal_degree(A) == A.max_deg

(***************************************************************************)
(* The arguments the calls are made with.                                  *)
(***************************************************************************)
NamePool == <<"x", "y", "z", "t", "u", "v">>

\* The names 'x', 'y', ... as a tuple of k strings.
NameTuple(k) == [i \in 1..k |-> <<NamePool[i]>>]

\* The same names as one string, separated by commas.
RECURSIVE NameString(_)
NameString(k) ==
  IF k = 1 THEN <<NamePool[1]>>
  ELSE NameString(k - 1) \o <<",", NamePool[k]>>

NamesArgs ==
  {None} \cup {[kind |-> "seq", val |-> NameTuple(k)] : k \in 1..MaxGens}
         \cup {[kind |-> "str", val |-> NameString(k)] : k \in 1..MaxGens}

DegreesArgs ==
  {None} \cup {[kind |-> "seq", val |-> d] :
                 d \in UNION {[1..m -> 1..MaxDegree] : m \in 0..MaxGens}}

MaxDegreeArgs ==
  {None, [kind |-> "nonint", val |-> <<>>]}
    \cup {[kind |-> "int", val |-> v] : v \in 0..MaxMaxDeg}

\* The indices passed to the methods: the elements of
\* WeightedIntegerVectors(degrees) of weight at most the maximal degree,
\* valid or not.
InputVectors(A) == UNION {subset(A.degrees, k) : k \in 0..A.max_deg}

GenArgs == (-(MaxGens + 1))..(MaxGens + 1)

(***************************************************************************)
(* The state machine.                                                      *)
(***************************************************************************)
NoAlgebra == [kind |-> "none"]

Call(name, args, res) == [name |-> name, args |-> args, res |-> res]

Init ==
  /\ alg = NoAlgebra
  /\ pc = "new"
  /\ op = Call("none", <<>>, None)

Construct ==
  /\ pc = "new"
  /\ \E names \in NamesArgs, degrees \in DegreesArgs, max_degree \in MaxDegreeArgs :
       LET r == construct(names, degrees, max_degree)
       IN /\ op' = Call("__init__", <<names, degrees, max_degree>>, r)
          /\ IF r.kind = "error"
             THEN pc' = "failed" /\ alg' = alg
             ELSE pc' = "ready" /\ alg' = r

ProductOnBasis ==
  /\ pc = "ready"
  /\ \E w1 \in InputVectors(alg), w2 \in InputVectors(alg) :
       op' = Call("product_on_basis", <<w1, w2>>, product_on_basis(alg, w1, w2))
  /\ pc' = "returned"
  /\ UNCHANGED alg

ValidIndex ==
  /\ pc = "ready"
  /\ \E w \in InputVectors(alg) :
       op' = Call("_valid_index", <<w>>, valid_index(alg, w))
  /\ pc' = "returned"
  /\ UNCHANGED alg

DegreeOnBasis ==
  /\ pc = "ready"
  /\ \E w \in InputVectors(alg) :
       op' = Call("degree_on_basis", <<w>>, degree_on_basis(alg, w))
  /\ pc' = "returned"
  /\ UNCHANGED alg

OneBasis ==
  /\ pc = "ready"
  /\ op' = Call("one_basis", <<>>, one_basis(alg))
  /\ pc' = "returned"
  /\ UNCHANGED alg

Gens ==
  /\ pc = "ready"
  /\ op' = Call("gens", <<>>, gens(alg))
  /\ pc' = "returned"
  /\ UNCHANGED alg

Gen ==
  /\ pc = "ready"
  /\ \E i \in GenArgs : op' = Call("gen", <<i>>, gen(alg, i))
  /\ pc' = "returned"
  /\ UNCHANGED alg

Ngens ==
  /\ pc = "ready"
  /\ op' = Call("ngens", <<>>, ngens(alg))
  /\ pc' = "returned"
  /\ UNCHANGED alg

MaximalDegree ==
  /\ pc = "ready"
  /\ op' = Call("maximal_degree", <<>>, maximal_degree(alg))
  /\ pc' = "returned"
  /\ UNCHANGED alg

\* The user drops the result and is ready for the next call.
Discard ==
  /\ pc = "returned"
  /\ pc' = "ready"
  /\ op' = Call("none", <<>>, None)
  /\ UNCHANGED alg

Next ==
  \/ Construct
  \/ ProductOnBasis
  \/ ValidIndex
  \/ DegreeOnBasis
  \/ OneBasis
  \/ Gens
  \/ Gen
  \/ Ngens
  \/ MaximalDegree
  \/ Discard

Spec == Init /\ [][Next]_vars

(***************************************************************************)
(* Multiplication of elements: product_on_basis extended linearly, as the  *)
(* free module multiplies two of its elements.                             *)
(***************************************************************************)
\* The coefficient of the index z in the element x.
coefficient(x, z) == IF z \in DOMAIN x THEN x[z] ELSE 0

\* Sum over the pairs of S of a[x] * b[y] * (coefficient of z in x * y).
RECURSIVE sum_pairs(_, _, _, _, _)
sum_pairs(A, a, b, S, z) ==
  IF S = {} THEN 0
  ELSE LET pr == CHOOSE e \in S : TRUE
       IN a[pr[1]] * b[pr[2]] * coefficient(product_on_basis(A, pr[1], pr[2]), z)
          + sum_pairs(A, a, b, S \ {pr}, z)

\* a * b for two elements a and b.
mul(A, a, b) ==
  LET pairs == (DOMAIN a) \X (DOMAIN b)
      support == UNION {DOMAIN product_on_basis(A, pr[1], pr[2]) : pr \in pairs}
      nonzero == {z \in support : sum_pairs(A, a, b, pairs, z) # 0}
  IN [z \in nonzero |-> sum_pairs(A, a, b, pairs, z)]

(***************************************************************************)
(* Vocabulary of the properties.                                           *)
(***************************************************************************)
\* The last call was product_on_basis; Left and Right are its arguments.
Multiplied == pc = "returned" /\ op.name = "product_on_basis"

Left == op.args[1]

Right == op.args[2]

\* The construction has just succeeded.
Constructed == pc = "ready" /\ op.name = "__init__"

\* The positions of the generators, counted from 1.
Positions == 1..Len(alg.degrees)

\* Some generator of odd degree has exponent at least 2 in w.
OddSquare(w) == \E i \in Positions : is_odd(alg.degrees[i]) /\ w[i] >= 2

\* Exponent at most 1 on every generator of odd degree.
OddAtMostOnce(w) == ~ OddSquare(w)

\* The sum of w_i * degree(i).
Weight(w) == grading(alg.degrees, w)

\* The entrywise sum of two indices.
Plus(w1, w2) == [i \in Positions |-> w1[i] + w2[i]]

\* Every exponent vector with entries up to the maximal degree.
AllVectors == [Positions -> 0..alg.max_deg]

\* The algebra has as many names as degrees.
Consistent == alg.kind = "algebra" /\ alg.ngens = Len(alg.degrees)

(***************************************************************************)
(* C1. Super-commutativity.                                                *)
(***************************************************************************)
\* C1: for basis indices w1, w2 (odd-degree generators with exponent at most
\* 1), product_on_basis(w1, w2) is (-1)^(grading(w1) * grading(w2)) times
\* product_on_basis(w2, w1).
C1_SuperCommutative ==
  (Multiplied /\ OddAtMostOnce(Left) /\ OddAtMostOnce(Right)) =>
    op.res = scalar_mul(MinusOnePow(Weight(Left) * Weight(Right)),
                        product_on_basis(alg, Right, Left))

\* The same on an algebra with as many names as degrees.
SuperCommutativeWhenConsistent == Consistent => C1_SuperCommutative

(***************************************************************************)
(* C2. The basis built at construction.                                    *)
(***************************************************************************)
\* The exponent vectors of grading at most max_degree with exponent at most
\* 1 on the generators of odd degree.
ExpectedBasis ==
  {w \in AllVectors : OddAtMostOnce(w) /\ Weight(w) <= alg.max_deg}

\* C2: the index set built at construction is exactly the set of exponent
\* vectors with exponent at most 1 on odd-degree generators and grading at
\* most max_degree, those of grading max_degree included.
C2_BasisIsAllValidUpToMaxDegree ==
  Constructed => indices(alg) = ExpectedBasis

\* What the construction builds: the same vectors of grading strictly below
\* max_degree.
BasisIsBelowMaxDegree ==
  Constructed =>
    indices(alg) = {w \in AllVectors : OddAtMostOnce(w) /\ Weight(w) < alg.max_deg}

(***************************************************************************)
(* C3. Associativity.                                                      *)
(***************************************************************************)
\* The third factors: indices valid for the algebra that keep the combined
\* degree within max_degree.
ThirdFactors ==
  {w3 \in UNION {subset(alg.degrees, k) :
                   k \in 0..(alg.max_deg - Weight(Left) - Weight(Right))} :
     OddAtMostOnce(w3)}

\* C3: for valid w1, w2, w3 of combined degree at most max_degree,
\* (w1 * w2) * w3 = w1 * (w2 * w3), the products of elements being
\* product_on_basis extended linearly.
C3_Associative ==
  (Multiplied /\ OddAtMostOnce(Left) /\ OddAtMostOnce(Right)) =>
    \A w3 \in ThirdFactors :
      mul(alg, op.res, monomial(w3))
        = mul(alg, monomial(Left), product_on_basis(alg, Right, w3))

\* A product of three factors that is not zero and carries a sign: the
\* first two anticommute and the third is not the unit.
C3_Witness ==
  /\ Multiplied /\ OddAtMostOnce(Left) /\ OddAtMostOnce(Right)
  /\ op.res # zero
  /\ \E w3 \in ThirdFactors :
       /\ w3 # one_basis(alg)
       /\ mul(alg, op.res, monomial(w3)) = scalar_mul(-1, monomial(Plus(Plus(Left, Right), w3)))

(***************************************************************************)
(* C4. Degree truncation.                                                  *)
(***************************************************************************)
\* C4: if grading(w1) + grading(w2) > max_degree the product is zero;
\* otherwise it is zero or +1/-1 times the one monomial of index w1 + w2,
\* whose grading is grading(w1) + grading(w2).
C4_GradedTruncation ==
  Multiplied =>
    IF Weight(Left) + Weight(Right) > alg.max_deg
    THEN op.res = zero
    ELSE \/ op.res = zero
         \/ /\ DOMAIN op.res = {Plus(Left, Right)}
            /\ op.res[Plus(Left, Right)] \in {1, -1}
            /\ Weight(Plus(Left, Right)) = Weight(Left) + Weight(Right)

\* A product cut off only by its degree: the sum of the indices is valid.
C4_Witness ==
  /\ Multiplied
  /\ Weight(Left) + Weight(Right) > alg.max_deg
  /\ OddAtMostOnce(Plus(Left, Right))
  /\ op.res = zero

(***************************************************************************)
(* C5. Identity.                                                           *)
(***************************************************************************)
\* C5: with e the index returned by one_basis, for every valid w of grading
\* at most max_degree, product_on_basis(e, w) and product_on_basis(w, e)
\* are the monomial of index w with coefficient +1.
C5_Identity ==
  Multiplied =>
    /\ (Left = one_basis(alg) /\ OddAtMostOnce(Right) /\ Weight(Right) <= alg.max_deg)
         => op.res = monomial(Right)
    /\ (Right = one_basis(alg) /\ OddAtMostOnce(Left) /\ Weight(Left) <= alg.max_deg)
         => op.res = monomial(Left)

\* The unit multiplied from the right with a monomial of two generators of
\* odd degree, of grading exactly max_degree.
C5_Witness ==
  /\ Multiplied
  /\ Right = one_basis(alg)
  /\ Cardinality({i \in Positions : is_odd(alg.degrees[i]) /\ Left[i] = 1}) >= 2
  /\ OddAtMostOnce(Left)
  /\ Weight(Left) = alg.max_deg
  /\ op.res = monomial(Left)

(***************************************************************************)
(* C6. Nilpotency of the generators of odd degree.                         *)
(***************************************************************************)
\* C6: an index with exponent at least 2 on a generator of odd degree is
\* rejected by _valid_index and is no member of the basis, and a product
\* whose indices add up to such an exponent is zero.
C6_OddNilpotent ==
  /\ (pc = "returned" /\ op.name = "_valid_index" /\ OddSquare(op.args[1]))
       => op.res = FALSE
  /\ Constructed => \A w \in indices(alg) : ~ OddSquare(w)
  /\ (Multiplied /\ OddSquare(Plus(Left, Right))) => op.res = zero

\* The square of a generator of odd degree, within the maximal degree.
C6_Witness ==
  /\ Multiplied
  /\ Left = Right
  /\ \E i \in Positions : Left = unit_index(alg, i - 1) /\ is_odd(alg.degrees[i])
  /\ Weight(Left) + Weight(Right) <= alg.max_deg
  /\ op.res = zero

(***************************************************************************)
(* C7. Access to one generator.                                            *)
(***************************************************************************)
\* The last call was gen(i).
GenCalled == pc = "returned" /\ op.name = "gen"

\* The generators are those of gens(): one per degree.
NumGens == Len(alg.degrees)

\* gen returned the generator at position k, counted from 0.
ReturnedGenerator(k) ==
  op.res = [kind |-> "value", val |-> monomial(unit_index(alg, k))]

\* gen raised an index error.
RaisedIndexError == op.res = [kind |-> "error", error |-> "IndexError"]

\* C7 as stated: gen(i) returns the i-th generator for 0 <= i < n and fails
\* with an index error for every other i, every negative i included.
C7_GenBoundsChecked ==
  GenCalled =>
    IF 0 <= op.args[1] /\ op.args[1] < NumGens
    THEN ReturnedGenerator(op.args[1])
    ELSE RaisedIndexError

\* C7 amended: gen(i) returns the i-th generator for 0 <= i < n, the
\* (n + i)-th generator for -n <= i < 0, and fails with an index error for
\* every i >= n and every i < -n.
C7_GenIndexesLikeAList ==
  GenCalled =>
    IF 0 <= op.args[1] /\ op.args[1] < NumGens
    THEN ReturnedGenerator(op.args[1])
    ELSE IF - NumGens <= op.args[1] /\ op.args[1] < 0
    THEN ReturnedGenerator(NumGens + op.args[1])
    ELSE RaisedIndexError

\* gen(-1) returned the last of at least two generators.
C7_Witness ==
  /\ GenCalled
  /\ op.args[1] = -1
  /\ NumGens >= 2
  /\ ReturnedGenerator(NumGens - 1)

(***************************************************************************)
(* C8. Validation at construction.                                         *)
(***************************************************************************)
\* The last call was the constructor; these are its arguments.
ConstructorCalled == op.name = "__init__"

NamesArg == op.args[1]

DegreesArg == op.args[2]

MaxDegreeArg == op.args[3]

\* The number of names passed: the pieces of a string, the entries of a
\* tuple.
NumberOfNames ==
  IF NamesArg.kind = "str"
  THEN 1 + Cardinality({k \in 1..Len(NamesArg.val) : NamesArg.val[k] = ","})
  ELSE Len(NamesArg.val)

\* Names and degrees are both given and differ in number.
Mismatched ==
  /\ NamesArg.kind # "none"
  /\ DegreesArg.kind # "none"
  /\ NumberOfNames # Len(DegreesArg.val)

\* max_degree is an integer below the largest degree (1 for defaulted
\* degrees).
BelowLargestDegree ==
  /\ MaxDegreeArg.kind = "int"
  /\ IF DegreesArg.kind = "none" THEN MaxDegreeArg.val < 1
     ELSE \E k \in 1..Len(DegreesArg.val) : MaxDegreeArg.val < DegreesArg.val[k]

InvalidConfiguration ==
  \/ NamesArg.kind = "none" /\ DegreesArg.kind = "none"
  \/ MaxDegreeArg.kind \in {"none", "nonint"}
  \/ BelowLargestDegree
  \/ Mismatched

\* C8: the construction fails, and builds no algebra, when names and
\* degrees are both missing, max_degree is missing or no integer,
\* max_degree < max(degrees), or names and degrees differ in number.
C8_ConstructionValidates ==
  (ConstructorCalled /\ InvalidConfiguration) =>
    (pc = "failed" /\ op.res.kind = "error" /\ alg = NoAlgebra)

\* What the construction does check: every invalid configuration other
\* than a differing number of names and degrees fails.
ConstructionValidatesAllButLengths ==
  (ConstructorCalled /\ InvalidConfiguration /\ ~ Mismatched) =>
    (pc = "failed" /\ op.res.kind = "error" /\ alg = NoAlgebra)

(***************************************************************************)
(* C9. The sign of a product.                                              *)
(***************************************************************************)
\* The generators of odd degree present in w, in increasing order of
\* position.
RECURSIVE OddGeneratorsFrom(_, _)
OddGeneratorsFrom(w, i) ==
  IF i > Len(alg.degrees) THEN <<>>
  ELSE (IF w[i] > 0 /\ is_odd(alg.degrees[i]) THEN <<i>> ELSE <<>>)
       \o OddGeneratorsFrom(w, i + 1)

OddGenerators(w) == OddGeneratorsFrom(w, 1)

\* The pairs (p, q), q < p, of an odd-degree generator p of w1 and an
\* odd-degree generator q of w2.
SignPairs(w1, w2) ==
  {pq \in Positions \X Positions :
     /\ pq[2] < pq[1]
     /\ w1[pq[1]] > 0 /\ is_odd(alg.degrees[pq[1]])
     /\ w2[pq[2]] > 0 /\ is_odd(alg.degrees[pq[2]])}

\* The number of adjacent transpositions a bubble sort makes to sort s.
Inversions(s) ==
  Cardinality({ab \in (1..Len(s)) \X (1..Len(s)) : ab[1] < ab[2] /\ s[ab[1]] > s[ab[2]]})

\* C9: when w1, w2 and w1 + w2 are valid and the total grading is at most
\* max_degree, the coefficient of product_on_basis(w1, w2) is (-1)^s, s the
\* number of pairs (p, q), q < p, of an odd-degree generator p of w1 and an
\* odd-degree generator q of w2; this is the sign of the permutation sorting
\* the odd-degree generators of w1 followed by those of w2.
C9_SignIsSortingParity ==
  (/\ Multiplied
   /\ OddAtMostOnce(Left) /\ OddAtMostOnce(Right) /\ OddAtMostOnce(Plus(Left, Right))
   /\ Weight(Left) + Weight(Right) <= alg.max_deg) =>
    /\ op.res = scalar_mul(MinusOnePow(Cardinality(SignPairs(Left, Right))),
                           monomial(Plus(Left, Right)))
    /\ op.res = scalar_mul(MinusOnePow(Inversions(OddGenerators(Left) \o OddGenerators(Right))),
                           monomial(Plus(Left, Right)))

\* The same on an algebra with as many names as degrees.
SignIsSortingParityWhenConsistent == Consistent => C9_SignIsSortingParity

(***************************************************************************)
(* C10. Closure of the basis under multiplication.                         *)
(***************************************************************************)
\* C10: the index of every generator and of the unit is a member of the
\* basis index set built at construction, and the product of two members is
\* zero or +1/-1 times a monomial whose index is a member again.
C10_BasisClosed ==
  /\ Constructed =>
       /\ one_basis(alg) \in indices(alg)
       /\ \A k \in 0..(Len(alg.degrees) - 1) : unit_index(alg, k) \in indices(alg)
  /\ (Multiplied /\ Left \in indices(alg) /\ Right \in indices(alg)) =>
       \/ op.res = zero
       \/ \E w \in indices(alg) : op.res \in {monomial(w), scalar_mul(-1, monomial(w))}

====
